---- MODULE Spec2Model ----
(***************************************************************************)
(* DNS-01 challenge record lifecycle of DO_cert_autobot: the provider      *)
(* registry (providers/__init__.py), the record helpers of DNSProvider     *)
(* (providers/base.py), the DigitalOcean provider                          *)
(* (providers/digitalocean.py) and the two certbot hooks (auth-hook.py,    *)
(* cleanup-hook.py).                                                       *)
(*                                                                         *)
(* A Python str is a sequence of one-character strings, so that split,     *)
(* join, lower and the f-strings are computed character by character.      *)
(***************************************************************************)
EXTENDS Integers, Sequences, FiniteSets, TLC

VARIABLES
    records,    \* the backend's DNS records, all zones: a set of records
    nextId,     \* the identifier the backend gives the next record it creates
    last        \* the last hook process that ran: its environment and outcome

vars == <<records, nextId, last>>

\* ------------------------------------------------------------------ bounds

\* Longest CERTBOT_DOMAIN, in characters, of the derivation specification.
MaxDomainLen == 5

\* Records the backend creates in one behaviour.
MaxCreates == 2

\* ------------------------------------------------------------- str helpers

Dot == "."

\* str.split(sep) for a one-character separator: the pieces between the
\* separators, empty pieces kept ("a..b" gives "a", "", "b"; "" gives "").
RECURSIVE SplitFrom(_, _, _, _)
SplitFrom(s, sep, i, cur) ==
    IF i > Len(s) THEN <<cur>>
    ELSE IF s[i] = sep THEN <<cur>> \o SplitFrom(s, sep, i + 1, <<>>)
    ELSE SplitFrom(s, sep, i + 1, Append(cur, s[i]))

Split(s, sep) == SplitFrom(s, sep, 1, <<>>)

\* sep.join(parts), sep a str.
RECURSIVE Join(_, _)
Join(parts, sep) ==
    IF Len(parts) = 0 THEN <<>>
    ELSE IF Len(parts) = 1 THEN parts[1]
    ELSE parts[1] \o sep \o Join(Tail(parts), sep)

UpperChars == <<"A","B","C","D","E","F","G","H","I","J","K","L","M",
                "N","O","P","Q","R","S","T","U","V","W","X","Y","Z">>
LowerChars == <<"a","b","c","d","e","f","g","h","i","j","k","l","m",
                "n","o","p","q","r","s","t","u","v","w","x","y","z">>

LowerChar(c) ==
    IF \E i \in 1..Len(UpperChars) : UpperChars[i] = c
    THEN LowerChars[CHOOSE i \in 1..Len(UpperChars) : UpperChars[i] = c]
    ELSE c

\* str.lower()
Lower(s) == [i \in 1..Len(s) |-> LowerChar(s[i])]

\* needle in haystack (substring test)
Contains(haystack, needle) ==
    \E i \in 0..(Len(haystack) - Len(needle)) :
        SubSeq(haystack, i + 1, i + Len(needle)) = needle

\* --------------------------------------------------- domain to challenge

\* The literal "_acme-challenge".
AcmeChallenge == <<"_","a","c","m","e","-","c","h","a","l","l","e","n","g","e">>

\* parts[-2:]
LastTwo(parts) == SubSeq(parts, Len(parts) - 1, Len(parts))

\* parts[:-2]
AllButLastTwo(parts) == SubSeq(parts, 1, Len(parts) - 2)

\* The names a hook derives: root_domain, subdomain, record_name.
Target(root_domain, subdomain, record_name) ==
    [root_domain |-> root_domain, subdomain |-> subdomain, record_name |-> record_name]

\* The record name without the subdomain.
ChallengeNameBare(subdomain) == AcmeChallenge

\* f"_acme-challenge.{subdomain}"
ChallengeName(subdomain) == AcmeChallenge \o <<Dot>> \o subdomain

\* The branches on len(parts) of auth-hook.py, parts = domain.split(".").
AuthDeriveParts(domain, parts) ==
    IF Len(parts) > 2
    THEN Target(Join(LastTwo(parts), <<Dot>>), Join(AllButLastTwo(parts), <<Dot>>),
                ChallengeName(Join(AllButLastTwo(parts), <<Dot>>)))
    ELSE Target(domain, <<>>, AcmeChallenge)

\* The creation hook with "len(parts) >= 2" for "len(parts) > 2".
AuthDeriveOffByOne(domain) ==
    IF Len(Split(domain, Dot)) >= 2
    THEN Target(Join(LastTwo(Split(domain, Dot)), <<Dot>>),
                Join(AllButLastTwo(Split(domain, Dot)), <<Dot>>),
                ChallengeName(Join(AllButLastTwo(Split(domain, Dot)), <<Dot>>)))
    ELSE Target(domain, <<>>, AcmeChallenge)

\* auth-hook.py main, "Determine root domain and subdomain".
AuthDerive(domain) == AuthDeriveParts(domain, Split(domain, Dot))

\* The branches on len(parts) of cleanup-hook.py.
CleanupDeriveParts(domain, parts) ==
    IF Len(parts) > 2
    THEN Target(Join(LastTwo(parts), <<Dot>>), Join(AllButLastTwo(parts), <<Dot>>),
                ChallengeName(Join(AllButLastTwo(parts), <<Dot>>)))
    ELSE Target(domain, <<>>, AcmeChallenge)

\* The cleanup hook with another splitting rule than the creation hook's:
\* the root domain is the last three labels when there are more than three.
CleanupDeriveThreeLabels(domain) ==
    IF Len(Split(domain, Dot)) > 3
    THEN Target(Join(SubSeq(Split(domain, Dot), Len(Split(domain, Dot)) - 2,
                            Len(Split(domain, Dot))), <<Dot>>),
                Join(SubSeq(Split(domain, Dot), 1, Len(Split(domain, Dot)) - 3), <<Dot>>),
                ChallengeName(Join(SubSeq(Split(domain, Dot), 1,
                                          Len(Split(domain, Dot)) - 3), <<Dot>>)))
    ELSE Target(domain, <<>>, AcmeChallenge)

\* cleanup-hook.py main, "Determine root domain and subdomain".
CleanupDerive(domain) == CleanupDeriveParts(domain, Split(domain, Dot))

\* ------------------------------------------------------ provider registry

\* The str "digitalocean".
DigitalOceanName == <<"d","i","g","i","t","a","l","o","c","e","a","n">>

UnknownProviderText == <<"U","n","k","n","o","w","n"," ","p","r","o","v","i","d","e","r",":"," ">>
AvailableText == <<"."," ","A","v","a","i","l","a","b","l","e",":"," ">>
CommaSpace == <<","," ">>

\* class DigitalOceanProvider: its metadata attributes.
DigitalOceanProvider == [name |-> DigitalOceanName, env_token_name |-> "DIGITALOCEAN_API_TOKEN"]

\* Python's None where a provider class is expected.
NoneClass == [name |-> <<>>, env_token_name |-> "None"]

\* The PROVIDERS dict, in insertion order.
PROVIDERS == << [key |-> DigitalOceanName, cls |-> DigitalOceanProvider] >>

\* list(PROVIDERS.keys())
list_providers == [i \in 1..Len(PROVIDERS) |-> PROVIDERS[i].key]

\* PROVIDERS.get(key): the class, or None.
ProvidersGet(key) ==
    IF \E i \in 1..Len(PROVIDERS) : PROVIDERS[i].key = key
    THEN PROVIDERS[CHOOSE i \in 1..Len(PROVIDERS) : PROVIDERS[i].key = key].cls
    ELSE NoneClass

\* The ValueError of get_provider: "Unknown provider: {name}. Available: {available}".
UnknownProvider(name) ==
    [raised |-> TRUE, value |-> NoneClass,
     message |-> UnknownProviderText \o name \o AvailableText
                 \o Join(list_providers, CommaSpace)]

\* get_provider after the lookup: raise if not provider_class, else return it.
ProviderOrRaise(name, provider_class) ==
    IF provider_class = NoneClass
    THEN UnknownProvider(name)
    ELSE [raised |-> FALSE, value |-> provider_class, message |-> <<>>]

\* get_provider without name.lower().
get_providerExact(name) == ProviderOrRaise(name, ProvidersGet(name))

\* get_provider(name): the class, or ValueError with its message.
get_provider(name) == ProviderOrRaise(name, ProvidersGet(Lower(name)))

\* -------------------------------------------------- DigitalOcean provider

\* TTL the creation hook asks for, and the seconds it then sleeps.
ChallengeTtl == 60
PropagationWait == 10

\* One entry of a hook run's trace: a provider request, or the sleep.
Call(op, domain, name, data, ttl, id, ok) ==
    [op |-> op, domain |-> domain, name |-> name, data |-> data,
     ttl |-> ttl, id |-> id, ok |-> ok]

\* The dict fetch_domain_records builds from one record of the response.
Fetched(r) == [id |-> r.id, name |-> r.name, type |-> r.type, data |-> r.data]

\* The records of zone as the backend lists them, by ascending id.
RECURSIVE ListZone(_)
ListZone(zone) ==
    IF zone = {} THEN <<>>
    ELSE LET first == CHOOSE r \in zone : \A q \in zone : r.id <= q.id
         IN <<Fetched(first)>> \o ListZone(zone \ {first})

\* fetch_domain_records(domain) when the GET succeeds: the zone's records as
\* dicts with the keys id, name, type, data.
fetch_domain_records(store, domain) == ListZone({r \in store : r.domain = domain})

\* The condition of find_txt_records' comprehension with "or" for its "and".
IsTxtOrNamed(r, record_name) == r.type = "TXT" \/ r.name = record_name

\* The condition of find_txt_records' comprehension.
IsTxtNamed(r, record_name) == r.type = "TXT" /\ r.name = record_name

\* find_txt_records without its test of the record type.
find_txt_recordsAnyType(fetched, record_name) ==
    SelectSeq(fetched, LAMBDA r : r.name = record_name)

\* find_txt_records with r['name'].startswith(record_name) for the equality.
find_txt_recordsPrefix(fetched, record_name) ==
    SelectSeq(fetched, LAMBDA r : /\ r.type = "TXT"
                                  /\ Len(r.name) >= Len(record_name)
                                  /\ SubSeq(r.name, 1, Len(record_name)) = record_name)

\* find_txt_records(domain, record_name), over the fetched records.
find_txt_records(fetched, record_name) ==
    SelectSeq(fetched, LAMBDA r : IsTxtNamed(r, record_name))

\* check_subdomain_exists with "or" for the "and" of its test.
SubdomainLoopNameOrType(fetched, subdomain, i) ==
    \E k \in i..Len(fetched) : fetched[k].name = subdomain \/ fetched[k].type = "A"

\* The loop of check_subdomain_exists over the fetched records, from index
\* i: True at the first A record named subdomain, False when there is none.
RECURSIVE SubdomainLoop(_, _, _)
SubdomainLoop(fetched, subdomain, i) ==
    IF i > Len(fetched) THEN FALSE
    ELSE IF fetched[i].name = subdomain /\ fetched[i].type = "A" THEN TRUE
    ELSE SubdomainLoop(fetched, subdomain, i + 1)

\* check_subdomain_exists(domain, subdomain): what it returns (value) and
\* the requests it made; getOk says whether the GET of fetch_domain_records
\* succeeds, and when it raises so does check_subdomain_exists.
check_subdomain_exists(store, domain, subdomain, getOk) ==
    IF subdomain = <<>>
    THEN [raised |-> FALSE, value |-> TRUE, calls |-> <<>>]
    ELSE IF ~getOk
    THEN [raised |-> TRUE, value |-> FALSE,
          calls |-> <<Call("fetch_domain_records", domain, <<>>, <<>>, 0, 0, FALSE)>>]
    ELSE [raised |-> FALSE,
          value |-> SubdomainLoop(fetch_domain_records(store, domain), subdomain, 1),
          calls |-> <<Call("fetch_domain_records", domain, <<>>, <<>>, 0, 0, TRUE)>>]

\* create_txt_record's result for each outcome of the POST:
\*   "created"    2xx with the new record under "domain_record"
\*   "http_error" raise_for_status raises; caught, None is returned
\*   "no_record"  2xx whose body has no "domain_record": the empty dict
CreateOutcomes == {"created", "http_error", "no_record"}

create_txt_record(domain, record_name, value, ttl, outcome, id) ==
    [kind |-> CASE outcome = "created" -> "record"
                [] outcome = "http_error" -> "None"
                [] OTHER -> "empty",
     id |-> IF outcome = "created" THEN id ELSE 0,
     domain |-> domain, name |-> record_name, type |-> "TXT", data |-> value,
     ttl |-> ttl]

\* Python truth of create_txt_record's result: None and {} are false.
Truthy(record) == record.kind = "record"

\* delete_txt_record(domain, record_id): True when the DELETE succeeds, False
\* when it raises a RequestException, which is caught.
delete_txt_record(domain, record_id, requestOk) == requestOk

\* The loop of cleanup_txt_records, left at the first deletion that fails.
RECURSIVE CleanupLoopAbort(_, _, _, _, _, _)
CleanupLoopAbort(found, domain, failing, i, deleted, calls) ==
    IF i > Len(found) THEN [calls |-> calls, deleted |-> deleted]
    ELSE IF delete_txt_record(domain, found[i].id, i \notin failing)
    THEN CleanupLoopAbort(found, domain, failing, i + 1, deleted + 1,
             Append(calls, Call("delete_txt_record", domain, <<>>, <<>>, 0, found[i].id, TRUE)))
    ELSE [calls |-> Append(calls, Call("delete_txt_record", domain, <<>>, <<>>, 0,
                                       found[i].id, FALSE)),
          deleted |-> deleted]

\* The loop of cleanup_txt_records over the found records, from index i with
\* the count and the DELETE calls so far: all the calls, and the final count.
\* failing: the positions in the loop whose DELETE request fails.
RECURSIVE CleanupLoop(_, _, _, _, _, _)
CleanupLoop(found, domain, failing, i, deleted, calls) ==
    IF i > Len(found) THEN [calls |-> calls, deleted |-> deleted]
    ELSE IF delete_txt_record(domain, found[i].id, i \notin failing)
    THEN CleanupLoop(found, domain, failing, i + 1, deleted + 1,
             Append(calls, Call("delete_txt_record", domain, <<>>, <<>>, 0, found[i].id, TRUE)))
    ELSE CleanupLoop(found, domain, failing, i + 1, deleted,
             Append(calls, Call("delete_txt_record", domain, <<>>, <<>>, 0, found[i].id, FALSE)))

\* cleanup_txt_records once find_txt_records has returned found.
CleanupFound(found, domain, failing, loop) ==
    [raised |-> FALSE, deleted |-> loop.deleted, found |-> found,
     calls |-> <<Call("fetch_domain_records", domain, <<>>, <<>>, 0, 0, TRUE)>>
               \o loop.calls]

DeleteEach(found, domain, failing) ==
    CleanupFound(found, domain, failing, CleanupLoop(found, domain, failing, 1, 0, <<>>))

\* cleanup_txt_records(domain, record_name): listOk says whether the GET of
\* find_txt_records succeeds; when it raises, so does cleanup_txt_records.
cleanup_txt_records(store, domain, record_name, listOk, failing) ==
    IF ~listOk
    THEN [raised |-> TRUE, deleted |-> 0, found |-> <<>>,
          calls |-> <<Call("fetch_domain_records", domain, <<>>, <<>>, 0, 0, FALSE)>>]
    ELSE DeleteEach(find_txt_records(fetch_domain_records(store, domain), record_name),
                    domain, failing)

\* ------------------------------------------------------------- the hooks

\* os.environ.get(name, default); env is a function from the names that are
\* set to their values.
EnvGet(env, name, default) == IF name \in DOMAIN env THEN env[name] ELSE default

\* What a hook process leaves behind: its exit code, why it failed, the
\* names it derived (t), what get_provider gave it (p: the class, or the
\* message of the ValueError it printed), the provider requests (and sleep)
\* it made, in order, and for the cleanup hook what find_txt_records
\* returned and the count cleanup_txt_records returned.
Run(hook, env, exit, error, t, p, calls, found, deleted) ==
    [hook |-> hook, env |-> env, exit |-> exit, error |-> error,
     root_domain |-> t.root_domain, subdomain |-> t.subdomain,
     record_name |-> t.record_name,
     provider |-> p.value, message |-> p.message,
     calls |-> calls, found |-> found, deleted |-> deleted]

\* Before get_provider is called.
NoProvider == [raised |-> FALSE, value |-> NoneClass, message |-> <<>>]

\* Before the names are derived.
NoTarget == Target(<<>>, <<>>, <<>>)

NoRun == Run("none", <<>>, 0, "none", NoTarget, NoProvider, <<>>, <<>>, 0)

\* The stored form of a record the backend created.
Stored(record) ==
    [id |-> record.id, domain |-> record.domain, name |-> record.name,
     type |-> record.type, data |-> record.data]

\* sys.exit(1) of the creation hook: nothing changes at the backend.
AuthFail(env, store, nid, error, t, p, calls) ==
    [run |-> Run("auth", env, 1, error, t, p, calls, <<>>, 0),
     records |-> store, nextId |-> nid]

\* The creation hook with "if record is not None:" for "if record:".
AuthRecordNotNone(env, store, nid, t, p, record, post) ==
    IF record.kind # "None"
    THEN [run |-> Run("auth", env, 0, "none", t, p,
                      <<post, Call("sleep", <<>>, <<>>, <<>>, PropagationWait, 0, TRUE)>>,
                      <<>>, 0),
          records |-> IF Truthy(record) THEN store \cup {Stored(record)} ELSE store,
          nextId |-> IF Truthy(record) THEN nid + 1 ELSE nid]
    ELSE AuthFail(env, store, nid, "null_record", t, p, <<post>>)

\* The creation hook with the sleep before "if record:".
AuthRecordSleepFirst(env, store, nid, t, p, record, post) ==
    IF Truthy(record)
    THEN [run |-> Run("auth", env, 0, "none", t, p,
                      <<post, Call("sleep", <<>>, <<>>, <<>>, PropagationWait, 0, TRUE)>>,
                      <<>>, 0),
          records |-> store \cup {Stored(record)}, nextId |-> nid + 1]
    ELSE AuthFail(env, store, nid, "null_record", t, p,
                  <<post, Call("sleep", <<>>, <<>>, <<>>, PropagationWait, 0, TRUE)>>)

\* The creation hook replacing the records that bear the name already.
AuthRecordReplace(env, store, nid, t, p, record, post) ==
    IF Truthy(record)
    THEN [run |-> Run("auth", env, 0, "none", t, p,
                      <<post, Call("sleep", <<>>, <<>>, <<>>, PropagationWait, 0, TRUE)>>,
                      <<>>, 0),
          records |-> {r \in store : ~(/\ r.domain = record.domain /\ r.type = "TXT"
                                       /\ r.name = record.name)}
                      \cup {Stored(record)},
          nextId |-> nid + 1]
    ELSE AuthFail(env, store, nid, "null_record", t, p, <<post>>)

\* auth-hook.py main() from "if record:" on. post is the request made.
AuthRecord(env, store, nid, t, p, record, post) ==
    IF Truthy(record)
    THEN [run |-> Run("auth", env, 0, "none", t, p,
                      <<post, Call("sleep", <<>>, <<>>, <<>>, PropagationWait, 0, TRUE)>>,
                      <<>>, 0),
          records |-> store \cup {Stored(record)}, nextId |-> nid + 1]
    ELSE AuthFail(env, store, nid, "null_record", t, p, <<post>>)

\* The creation hook sending its request again when it failed.
AuthTryRetry(env, store, nid, outcome, validation, t, p, api_token) ==
    IF p.raised
    THEN AuthFail(env, store, nid, "unknown_provider", t, p, <<>>)
    ELSE IF api_token = <<>>
    THEN AuthFail(env, store, nid, "missing_credential", t, p, <<>>)
    ELSE IF outcome = "http_error"
    THEN [run |-> Run("auth", env, 0, "none", t, p,
                      <<Call("create_txt_record", t.root_domain, t.record_name,
                             validation, ChallengeTtl, 0, FALSE),
                        Call("create_txt_record", t.root_domain, t.record_name,
                             validation, ChallengeTtl, nid, TRUE),
                        Call("sleep", <<>>, <<>>, <<>>, PropagationWait, 0, TRUE)>>,
                      <<>>, 0),
          records |-> store \cup {Stored(create_txt_record(t.root_domain, t.record_name,
                                             validation, ChallengeTtl, "created", nid))},
          nextId |-> nid + 1]
    ELSE AuthRecord(env, store, nid, t, p,
             create_txt_record(t.root_domain, t.record_name, validation,
                               ChallengeTtl, outcome, nid),
             Call("create_txt_record", t.root_domain, t.record_name, validation,
                  ChallengeTtl, IF outcome = "created" THEN nid ELSE 0,
                  outcome # "http_error"))

\* auth-hook.py main(), the try block. os.environ.get without a default gives
\* None, which is false like "".
AuthTry(env, store, nid, outcome, validation, t, p, api_token) ==
    IF p.raised
    THEN AuthFail(env, store, nid, "unknown_provider", t, p, <<>>)
    ELSE IF api_token = <<>>
    THEN AuthFail(env, store, nid, "missing_credential", t, p, <<>>)
    ELSE AuthRecord(env, store, nid, t, p,
             create_txt_record(t.root_domain, t.record_name, validation,
                               ChallengeTtl, outcome, nid),
             Call("create_txt_record", t.root_domain, t.record_name, validation,
                  ChallengeTtl, IF outcome = "created" THEN nid ELSE 0,
                  outcome # "http_error"))

AuthProvider(env, store, nid, outcome, validation, t, p) ==
    AuthTry(env, store, nid, outcome, validation, t, p,
            EnvGet(env, p.value.env_token_name, <<>>))

AuthChecked(env, store, nid, outcome, domain, validation, provider_name) ==
    IF domain = <<>> \/ validation = <<>>
    THEN AuthFail(env, store, nid, "missing_env", NoTarget, NoProvider, <<>>)
    ELSE AuthProvider(env, store, nid, outcome, validation,
                      AuthDerive(domain), get_provider(provider_name))

\* auth-hook.py main(): the run, and the backend's records and next
\* identifier after it. outcome is what the backend does with the POST.
auth_main(env, store, nid, outcome) ==
    AuthChecked(env, store, nid, outcome,
                EnvGet(env, "CERTBOT_DOMAIN", <<>>),
                EnvGet(env, "CERTBOT_VALIDATION", <<>>),
                EnvGet(env, "DNS_PROVIDER", DigitalOceanName))

\* sys.exit(1) of the cleanup hook.
CleanupFail(env, store, error, t, p, calls) ==
    [run |-> Run("cleanup", env, 1, error, t, p, calls, <<>>, 0), records |-> store]

\* The ids of the DELETE requests of calls that succeeded.
Gone(calls) ==
    {calls[k].id : k \in {j \in 1..Len(calls) :
                             calls[j].op = "delete_txt_record" /\ calls[j].ok}}

\* The backend's records once the DELETE requests for the ids in gone of
\* zone domain succeeded.
Without(store, domain, gone) == {r \in store : ~(r.domain = domain /\ r.id \in gone)}

\* The cleanup hook failing when nothing was deleted.
CleanupDoneZeroIsError(env, store, t, p, c) ==
    IF c.raised
    THEN CleanupFail(env, store, "api_error", t, p, c.calls)
    ELSE IF c.deleted = 0
    THEN CleanupFail(env, store, "nothing_deleted", t, p, c.calls)
    ELSE [run |-> Run("cleanup", env, 0, "none", t, p, c.calls, c.found, c.deleted),
          records |-> Without(store, t.root_domain, Gone(c.calls))]

\* cleanup-hook.py main() once cleanup_txt_records has returned or raised (c).
CleanupDone(env, store, t, p, c) ==
    IF c.raised
    THEN CleanupFail(env, store, "api_error", t, p, c.calls)
    ELSE [run |-> Run("cleanup", env, 0, "none", t, p, c.calls, c.found, c.deleted),
          records |-> Without(store, t.root_domain, Gone(c.calls))]

\* cleanup-hook.py main(), the try block.
CleanupTry(env, store, listOk, failing, t, p, api_token) ==
    IF p.raised
    THEN CleanupFail(env, store, "unknown_provider", t, p, <<>>)
    ELSE IF api_token = <<>>
    THEN CleanupFail(env, store, "missing_credential", t, p, <<>>)
    ELSE CleanupDone(env, store, t, p,
             cleanup_txt_records(store, t.root_domain, t.record_name, listOk, failing))

CleanupProvider(env, store, listOk, failing, t, p) ==
    CleanupTry(env, store, listOk, failing, t, p,
               EnvGet(env, p.value.env_token_name, <<>>))

CleanupChecked(env, store, listOk, failing, domain, provider_name) ==
    IF domain = <<>>
    THEN CleanupFail(env, store, "missing_env", NoTarget, NoProvider, <<>>)
    ELSE CleanupProvider(env, store, listOk, failing,
                         CleanupDerive(domain), get_provider(provider_name))

\* cleanup-hook.py main(): the run and the backend's records after it.
\* listOk: the GET succeeds; failing: the DELETE requests, by position, that fail.
cleanup_main(env, store, listOk, failing) ==
    CleanupChecked(env, store, listOk, failing,
                   EnvGet(env, "CERTBOT_DOMAIN", <<>>),
                   EnvGet(env, "DNS_PROVIDER", DigitalOceanName))

\* ------------------------------------------------- the orchestrating CLI

Letters == {UpperChars[i] : i \in 1..Len(UpperChars)}
               \cup {LowerChars[i] : i \in 1..Len(LowerChars)}
Digits  == {"0", "1", "2", "3", "4", "5", "6", "7", "8", "9"}
AlNum   == Letters \cup Digits
Hyphen  == "-"
NewLine == "\n"

\* s matches [a-zA-Z0-9]([a-zA-Z0-9-]{0,61}[a-zA-Z0-9])? from end to end.
IsLabel(s) ==
    /\ Len(s) >= 1 /\ Len(s) <= 63
    /\ s[1] \in AlNum /\ s[Len(s)] \in AlNum
    /\ \A i \in 2..(Len(s) - 1) : s[i] \in AlNum \cup {Hyphen}

\* s matches [a-zA-Z]{2,} from end to end.
IsAlphaLabel(s) == Len(s) >= 2 /\ \A i \in 1..Len(s) : s[i] \in Letters

\* What "$" leaves of s to be matched: it matches at the end of s, and
\* before a newline that ends s.
BeforeNewline(s) ==
    IF Len(s) >= 1 /\ s[Len(s)] = NewLine THEN SubSeq(s, 1, Len(s) - 1) ELSE s

\* The labels match the pattern of validate_domain: a label, then one or
\* more groups of a dot and two or more letters.
DomainLabelsMatch(parts) ==
    /\ Len(parts) >= 2
    /\ IsLabel(parts[1])
    /\ \A i \in 2..Len(parts) : IsAlphaLabel(parts[i])

\* re.match(pattern, domain) of validate_domain.
MatchesDomain(domain) == DomainLabelsMatch(Split(BeforeNewline(domain), Dot))

\* re.match(pattern, subdomain) of validate_subdomain.
MatchesSubdomain(subdomain) == IsLabel(BeforeNewline(subdomain))

\* args.action when --action is not given.
NoAction == "None"

\* The parsed arguments; domain <<>> is None (--domain not given).
Args(provider, action, domain, subdomain) ==
    [provider |-> provider, action |-> action, domain |-> domain,
     subdomain |-> subdomain]

\* validate_args(args, valid_domains, provider_name): "none" when it
\* returns, or the error on which it calls sys.exit(1).
validate_args(args, valid_domains) ==
    IF args.action # NoAction /\ args.domain = <<>> THEN "missing_domain"
    ELSE IF args.domain # <<>> /\ ~MatchesDomain(args.domain) THEN "invalid_domain"
    ELSE IF args.domain # <<>>
            /\ ~\E i \in 1..Len(valid_domains) : valid_domains[i] = args.domain
    THEN "unknown_domain"
    ELSE IF args.subdomain # <<>> /\ ~MatchesSubdomain(args.subdomain)
    THEN "invalid_subdomain"
    ELSE "none"

\* f"{subdomain}.{domain}" if subdomain else domain
FullDomain(subdomain, domain) ==
    IF subdomain # <<>> THEN subdomain \o <<Dot>> \o domain ELSE domain

\* record_name.startswith(prefix)
StartsWith(s, prefix) ==
    Len(s) >= Len(prefix) /\ SubSeq(s, 1, Len(prefix)) = prefix

\* run_interactive_mode: the subdomain of the record chosen to overwrite.
SubdomainOfRecord(record_name) ==
    IF StartsWith(record_name, AcmeChallenge \o <<Dot>>)
    THEN SubSeq(record_name, Len(AcmeChallenge) + 2, Len(record_name))
    ELSE <<>>

\* os.environ[name] = value
EnvSet(env, name, value) ==
    [n \in (DOMAIN env) \cup {name} |-> IF n = name THEN value ELSE env[n]]

\* What a process of certbot_auto.py leaves behind: its arguments, its
\* environment when it ended, its exit code and why it failed, its requests
\* to the provider in order, the domain it ran certbot for (<<>> when it did
\* not) and whether it printed the warning of the missing A record.
CliRun(args, env, exit, error, calls, certbot_domain, warned) ==
    [hook |-> "cli", args |-> args, env |-> env, exit |-> exit, error |-> error,
     calls |-> calls, certbot_domain |-> certbot_domain, warned |-> warned]

\* ------------------------------------------------- inputs of the hook runs

\* The environment in which d, v, p and c (each <<>> for unset, or <<value>>)
\* are CERTBOT_DOMAIN, CERTBOT_VALIDATION, DNS_PROVIDER and
\* DIGITALOCEAN_API_TOKEN.
EnvOf(d, v, p, c) ==
    LET opt(n) == CASE n = "CERTBOT_DOMAIN" -> d
                    [] n = "CERTBOT_VALIDATION" -> v
                    [] n = "DNS_PROVIDER" -> p
                    [] n = "DIGITALOCEAN_API_TOKEN" -> c
        names == {"CERTBOT_DOMAIN", "CERTBOT_VALIDATION", "DNS_PROVIDER",
                  "DIGITALOCEAN_API_TOKEN"}
    IN [n \in {m \in names : opt(m) # <<>>} |-> opt(n)[1]]

ExCom    == <<"e","x",".","c","o","m">>
ExOrg    == <<"e","x",".","o","r","g">>
WwwExCom == <<"w","w","w",".","e","x",".","c","o","m">>
WwwExOrg == <<"w","w","w",".","e","x",".","o","r","g">>

\* CERTBOT_DOMAIN values of the hook runs: a bare root domain, a subdomain
\* of it, and the same subdomain of another root domain.
HookDomains == {ExCom, WwwExCom, WwwExOrg}

\* CERTBOT_VALIDATION and the API token.
Validation == <<"t","o","k">>
Secret     == <<"k","e","y">>

MixedCaseName == <<"D","i","g","i","t","a","l","O","c","e","a","n">>
UpperCaseName == <<"D","I","G","I","T","A","L","O","C","E","A","N">>
Route53Name   == <<"r","o","u","t","e","5","3">>
PrefixName    == <<"d","i","g","i","t","a","l">>

\* DNS_PROVIDER values: unset, case variants of the registered name, and
\* names that are not registered (one of them a prefix of the registered one).
ProviderOpts == {<<>>, <<MixedCaseName>>, <<UpperCaseName>>, <<Route53Name>>,
                 <<PrefixName>>}

\* Well-configured environments of the hooks, one for each hook domain
\* (certbot sets CERTBOT_VALIDATION for the cleanup hook too).
ValidEnvs == {EnvOf(<<d>>, <<Validation>>, <<>>, <<Secret>>) : d \in HookDomains}

\* Every combination of present and absent settings for one domain, and the
\* environments in which one setting is the empty string.
ConfigEnvs ==
    {EnvOf(d, v, p, c) : d \in {<<>>, <<WwwExCom>>}, v \in {<<>>, <<Validation>>},
                         p \in ProviderOpts, c \in {<<>>, <<Secret>>}}
    \cup {EnvOf(<< <<>> >>, <<Validation>>, <<>>, <<Secret>>),
          EnvOf(<<WwwExCom>>, << <<>> >>, <<>>, <<Secret>>),
          EnvOf(<<WwwExCom>>, <<Validation>>, << <<>> >>, <<Secret>>),
          EnvOf(<<WwwExCom>>, <<Validation>>, <<>>, << <<>> >>)}

\* ------------------------------------------------------------ the backend

AcmeWww  == AcmeChallenge \o <<".","w","w","w">>
AcmeWww2 == AcmeChallenge \o <<".","w","w","w","2">>
Www      == <<"w","w","w">>
OldToken == <<"o","l","d">>
Address  == <<"1",".","2",".","3",".","4">>

\* Records the account may hold before any hook runs; a record's id is its
\* place in this list.
InitCandidates ==
    << [domain |-> ExCom, name |-> AcmeWww,       type |-> "TXT",   data |-> OldToken],
       [domain |-> ExCom, name |-> AcmeWww,       type |-> "CNAME", data |-> Address],
       [domain |-> ExCom, name |-> Www,           type |-> "A",     data |-> Address],
       [domain |-> ExCom, name |-> AcmeWww2,      type |-> "TXT",   data |-> OldToken],
       [domain |-> ExCom, name |-> AcmeChallenge, type |-> "TXT",   data |-> OldToken],
       [domain |-> ExOrg, name |-> AcmeWww,       type |-> "TXT",   data |-> OldToken] >>

InitRecord(i) ==
    [id |-> i, domain |-> InitCandidates[i].domain, name |-> InitCandidates[i].name,
     type |-> InitCandidates[i].type, data |-> InitCandidates[i].data]

AllInitRecords == {InitRecord(i) : i \in 1..Len(InitCandidates)}

\* The account starts empty, with the records that are no challenge left
\* behind, or with all the records.
InitStores == {{}, {r \in AllInitRecords : r.data # OldToken \/ r.name = AcmeWww2},
               AllInitRecords}

FirstId == Len(InitCandidates) + 1

\* ------------------------------------------------------------- behaviours

\* What the backend may do with the POST of a creation hook run in env: a
\* run that sends no POST has nothing to draw.
PostOutcomes(env) ==
    IF auth_main(env, {}, FirstId, "created").run.calls = <<>>
    THEN {"created"} ELSE CreateOutcomes

\* Whether the GET of a cleanup hook run may fail, dry being the run with
\* every request succeeding: a run that sends no GET has nothing to draw.
GetOutcomes(dry) == IF dry.calls = <<>> THEN {TRUE} ELSE BOOLEAN

\* Which of the DELETE requests, by position, may fail: any of those sent.
DeleteOutcomes(dry, listOk) == IF listOk THEN SUBSET (1..Len(dry.found)) ELSE {{}}

\* The state after a creation hook process whose result is r.
AfterAuth(r) ==
    /\ r.nextId <= FirstId + MaxCreates
    /\ records' = r.records
    /\ nextId' = r.nextId
    /\ last' = r.run

\* The state after a cleanup hook process whose result is r.
AfterCleanup(r) ==
    /\ records' = r.records
    /\ nextId' = nextId
    /\ last' = r.run

CleanupDrawn(env, dry) ==
    \E listOk \in GetOutcomes(dry) : \E failing \in DeleteOutcomes(dry, listOk) :
        AfterCleanup(cleanup_main(env, records, listOk, failing))

\* One creation hook process (certbot's --manual-auth-hook), from start to
\* exit, in an environment of envs.
AuthRun(envs) ==
    \E env \in envs : \E outcome \in PostOutcomes(env) :
        AfterAuth(auth_main(env, records, nextId, outcome))

\* One cleanup hook process (certbot's --manual-cleanup-hook).
CleanupRun(envs) ==
    \E env \in envs : CleanupDrawn(env, cleanup_main(env, records, TRUE, {}).run)

Init ==
    /\ records \in InitStores
    /\ nextId = FirstId
    /\ last = NoRun

\* The hooks in well-configured environments, against a backend whose
\* requests may fail.
AuthHook == AuthRun(ValidEnvs)

CleanupHook == CleanupRun(ValidEnvs)

Next == AuthHook \/ CleanupHook

Spec == Init /\ [][Next]_vars

\* The hooks in every configuration, for one domain.
ConfigAuthHook == AuthRun(ConfigEnvs)

ConfigCleanupHook == CleanupRun(ConfigEnvs)

NextConfig == ConfigAuthHook \/ ConfigCleanupHook

SpecConfig == Init /\ [][NextConfig]_vars

\* certbot's DNS-01 exchange for each domain name over a small alphabet, with
\* a backend whose requests succeed: the creation hook for the domain, then
\* the cleanup hook in the same environment, and again.
DomainChars == {"a", "b", Dot}

BoundedDomains == UNION {[1..n -> DomainChars] : n \in 1..MaxDomainLen}

\* certbot has set the environment and has run no hook yet.
Exchange(env) == [NoRun EXCEPT !.env = env]

InitDerive ==
    /\ records = {}
    /\ nextId = FirstId
    /\ \E d \in BoundedDomains :
           last = Exchange(EnvOf(<<d>>, <<Validation>>, <<>>, <<Secret>>))

CertbotAuth ==
    /\ last.hook # "auth"
    /\ AfterAuth(auth_main(last.env, records, nextId, "created"))

CertbotCleanup ==
    /\ last.hook = "auth"
    /\ AfterCleanup(cleanup_main(last.env, records, TRUE, {}))

NextDerive == CertbotAuth \/ CertbotCleanup

SpecDerive == InitDerive /\ [][NextDerive]_vars

\* certbot's exchange for a domain while the challenge record of another
\* domain is in place: the creation hook has run for the other domain, with
\* that domain's validation token, and the hooks now run for this one. The
\* two domains are any two different names over a letter and the dot.
PairChars == {"a", Dot}

PairDomains == UNION {[1..n -> PairChars] : n \in 1..MaxDomainLen}

OtherValidation == <<"t","k","2">>

InitPair ==
    \E d1 \in PairDomains : \E d2 \in PairDomains \ {d1} :
        /\ records = auth_main(EnvOf(<<d2>>, <<OtherValidation>>, <<>>, <<Secret>>),
                               {}, FirstId, "created").records
        /\ nextId = FirstId + 1
        /\ last = Exchange(EnvOf(<<d1>>, <<Validation>>, <<>>, <<Secret>>))

NextPair == CertbotAuth \/ CertbotCleanup

SpecPair == InitPair /\ [][NextPair]_vars

\* A caller of the provider's check_subdomain_exists, for each zone, each
\* subdomain and each set of records the account may hold.
Mail == <<"m","a","i","l">>

SubdomainCandidates ==
    << [domain |-> ExCom, name |-> Www,  type |-> "A",     data |-> Address],
       [domain |-> ExCom, name |-> Www,  type |-> "CNAME", data |-> Address],
       [domain |-> ExCom, name |-> Www,  type |-> "TXT",   data |-> OldToken],
       [domain |-> ExCom, name |-> Mail, type |-> "A",     data |-> Address],
       [domain |-> ExOrg, name |-> Www,  type |-> "A",     data |-> Address] >>

SubdomainRecord(i) ==
    [id |-> i, domain |-> SubdomainCandidates[i].domain,
     name |-> SubdomainCandidates[i].name, type |-> SubdomainCandidates[i].type,
     data |-> SubdomainCandidates[i].data]

SubdomainStores == SUBSET {SubdomainRecord(i) : i \in 1..Len(SubdomainCandidates)}

\* The call about to be made, and the call once it has returned or raised.
SubdomainCall(domain, subdomain) ==
    [hook |-> "pending", domain |-> domain, subdomain |-> subdomain,
     raised |-> FALSE, value |-> FALSE, calls |-> <<>>]

SubdomainChecked(domain, subdomain, c) ==
    [hook |-> "check_subdomain_exists", domain |-> domain, subdomain |-> subdomain,
     raised |-> c.raised, value |-> c.value, calls |-> c.calls]

InitSubdomain ==
    /\ records \in SubdomainStores
    /\ nextId = FirstId
    /\ \E domain \in {ExCom, ExOrg} : \E subdomain \in {<<>>, Www, Mail} :
           last = SubdomainCall(domain, subdomain)

\* provider.check_subdomain_exists(domain, subdomain); the GET may fail when
\* one is sent.
CheckSubdomain ==
    /\ last.hook = "pending"
    /\ \E getOk \in (IF last.subdomain = <<>> THEN {TRUE} ELSE BOOLEAN) :
           last' = SubdomainChecked(last.domain, last.subdomain,
                       check_subdomain_exists(records, last.domain, last.subdomain, getOk))
    /\ UNCHANGED <<records, nextId>>

NextSubdomain == CheckSubdomain

SpecSubdomain == InitSubdomain /\ [][NextSubdomain]_vars

\* certbot_auto.py, one process from its arguments to its exit, and the
\* hooks of the certbot it ran.

\* The zones of the account, as fetch_domains lists them.
AccountDomains == <<ExCom, ExOrg>>

ExNet        == <<"e","x",".","n","e","t">>
BadDomain    == <<"e","x","_",".","c","o","m">>
BadSubdomain == <<"-","w">>

\* The process ends: sys.exit(exit), or the return of main for 0.
CliExit(args, env, exit, error, calls, certbot_domain, warned) ==
    /\ last' = CliRun(args, env, exit, error, calls, certbot_domain, warned)
    /\ UNCHANGED <<records, nextId>>

\* finalize_certbot(full_domain, ...): subprocess.run with check=True gives
\* return code 0 or raises CalledProcessError, which main catches.
finalize_certbot(args, env, calls, full_domain, warned) ==
    \E returncode \in {0, 1} :
        IF returncode = 0
        THEN CliExit(args, env, 0, "none", calls, full_domain, warned)
        ELSE CliExit(args, env, 1, "certbot_failed", calls, full_domain, warned)

\* Once check_subdomain_exists has returned or raised (c): the warning when
\* it returned False, then certbot.
IssueChecked(args, env, calls, full_domain, c) ==
    IF c.raised
    THEN CliExit(args, env, 1, "api_error", calls \o c.calls, <<>>, FALSE)
    ELSE finalize_certbot(args, env, calls \o c.calls, full_domain, ~c.value)

\* The issuance of run_cli_mode and run_interactive_mode:
\* "if subdomain and not provider.check_subdomain_exists(domain, subdomain)",
\* then finalize_certbot.
Issue(args, env, calls, domain, subdomain) ==
    IF subdomain # <<>>
    THEN \E getOk \in BOOLEAN :
             IssueChecked(args, env, calls, FullDomain(subdomain, domain),
                          check_subdomain_exists(records, domain, subdomain, getOk))
    ELSE finalize_certbot(args, env, calls, FullDomain(subdomain, domain), FALSE)

\* run_cli_mode(args, provider, script_dir, domain_names); verdict is what
\* validate_args gave. Revoking and the expiry check make no request to the
\* provider and end in exit code 0.
run_cli_mode(args, env, calls, domain_names, verdict) ==
    IF verdict # "none"
    THEN CliExit(args, env, 1, verdict, calls, <<>>, FALSE)
    ELSE IF args.action = "renew"
    THEN Issue(args, env, calls, args.domain, args.subdomain)
    ELSE CliExit(args, env, 0, "none", calls, <<>>, FALSE)

\* What the user types for the subdomain in interactive mode.
TypedSubdomains == {<<>>, Www, BadSubdomain}

\* "Overwrite an existing record": the user selects one of the zone's
\* records; with none to select the prompt never gets a valid answer, and
\* the process ends at the end of its input.
Overwrite(args, env, calls, selected_domain, domain_records) ==
    IF domain_records = <<>>
    THEN CliExit(args, env, 1, "no_selection", calls, <<>>, FALSE)
    ELSE \E i \in 1..Len(domain_records) :
             Issue(args, env, calls, selected_domain,
                   SubdomainOfRecord(domain_records[i].name))

\* "Issue a new certificate" for the selected domain.
IssueNew(args, env, calls, selected_domain) ==
    \E record_action \in {"create", "overwrite"} :
        IF record_action = "overwrite"
        THEN \E getOk \in BOOLEAN :
                 IF getOk
                 THEN Overwrite(args, env,
                          Append(calls, Call("fetch_domain_records", selected_domain,
                                             <<>>, <<>>, 0, 0, TRUE)),
                          selected_domain, fetch_domain_records(records, selected_domain))
                 ELSE CliExit(args, env, 1, "api_error",
                          Append(calls, Call("fetch_domain_records", selected_domain,
                                             <<>>, <<>>, 0, 0, FALSE)),
                          <<>>, FALSE)
        ELSE \E subdomain \in TypedSubdomains :
                 Issue(args, env, calls, selected_domain, subdomain)

\* run_interactive_mode(provider, script_dir, domain_names): the user's
\* selections are drawn among the options shown.
run_interactive_mode(args, env, calls, domain_names) ==
    IF domain_names = <<>>
    THEN CliExit(args, env, 1, "no_selection", calls, <<>>, FALSE)
    ELSE \E action \in {"issue", "revoke", "expiry"} : \E i \in 1..Len(domain_names) :
             IF action = "issue"
             THEN IssueNew(args, env, calls, domain_names[i])
             ELSE CliExit(args, env, 0, "none", calls, <<>>, FALSE)

\* main() from "domain_names = provider.fetch_domains()" on: the GET of the
\* account's domains, then the mode.
FetchDomains(args, env, interactive) ==
    \E ok \in BOOLEAN :
        IF ~ok
        THEN CliExit(args, env, 1, "api_error",
                     <<Call("fetch_domains", <<>>, <<>>, <<>>, 0, 0, FALSE)>>, <<>>, FALSE)
        ELSE IF interactive
        THEN run_interactive_mode(args, env,
                 <<Call("fetch_domains", <<>>, <<>>, <<>>, 0, 0, TRUE)>>, AccountDomains)
        ELSE run_cli_mode(args, env,
                 <<Call("fetch_domains", <<>>, <<>>, <<>>, 0, 0, TRUE)>>, AccountDomains,
                 validate_args(args, AccountDomains))

\* check_prerequisites, the credential: asked for in interactive mode.
CheckToken(args, env, interactive, token_env) ==
    IF EnvGet(env, token_env, <<>>) # <<>>
    THEN FetchDomains(args, env, interactive)
    ELSE IF interactive
    THEN \E token \in {<<>>, Secret} :
             IF token # <<>>
             THEN FetchDomains(args, EnvSet(env, token_env, token), interactive)
             ELSE CliExit(args, env, 1, "missing_credential", <<>>, <<>>, FALSE)
    ELSE CliExit(args, env, 1, "missing_credential", <<>>, <<>>, FALSE)

\* What becomes of a missing tool in interactive mode: installed on the
\* user's "y", the installation failing, or declined.
Installs == {"installed", "failed", "declined"}

\* check_prerequisites, jq.
CheckJq(args, env, tools, interactive, token_env) ==
    IF tools.jq
    THEN CheckToken(args, env, interactive, token_env)
    ELSE IF interactive
    THEN \E answer \in Installs :
             IF answer = "installed"
             THEN CheckToken(args, env, interactive, token_env)
             ELSE CliExit(args, env, 1, "prerequisite", <<>>, <<>>, FALSE)
    ELSE CliExit(args, env, 1, "prerequisite", <<>>, <<>>, FALSE)

\* check_prerequisites(provider_class, interactive), from certbot on.
check_prerequisites(args, env, tools, interactive, token_env) ==
    IF tools.certbot
    THEN CheckJq(args, env, tools, interactive, token_env)
    ELSE IF interactive
    THEN \E answer \in Installs :
             IF answer = "installed"
             THEN CheckJq(args, env, tools, interactive, token_env)
             ELSE CliExit(args, env, 1, "prerequisite", <<>>, <<>>, FALSE)
    ELSE CliExit(args, env, 1, "prerequisite", <<>>, <<>>, FALSE)

\* main() once get_provider has returned or raised (p).
CliProvider(args, env, tools, p) ==
    IF p.raised
    THEN CliExit(args, env, 1, "unknown_provider", <<>>, <<>>, FALSE)
    ELSE check_prerequisites(args, env, tools, args.action = NoAction,
                             p.value.env_token_name)

\* The process as started: its arguments, environment and installed tools.
Invoked(args, env, tools) ==
    [hook |-> "invoked", args |-> args, env |-> env, tools |-> tools]

CliInvocations ==
    {Invoked(Args(provider, action, domain, subdomain),
             EnvOf(<<>>, <<>>, <<>>, c), [certbot |-> t[1], jq |-> t[2]]) :
        provider \in {DigitalOceanName, MixedCaseName, Route53Name},
        action \in {NoAction, "renew", "revoke", "expiry"},
        domain \in {<<>>, ExCom, ExNet, BadDomain},
        subdomain \in {<<>>, Www, BadSubdomain},
        c \in {<<>>, <<Secret>>},
        t \in {<<TRUE, TRUE>>, <<FALSE, TRUE>>, <<TRUE, FALSE>>}}

InitCli ==
    /\ records \in InitStores
    /\ nextId = FirstId
    /\ last \in CliInvocations

\* certbot_auto.py main().
CertbotAuto ==
    /\ last.hook = "invoked"
    /\ CliProvider(last.args, last.env, last.tools, get_provider(last.args.provider))

\* The environment of the hooks of the certbot a process ran: its own, with
\* DNS_PROVIDER the provider's name, and certbot's two variables.
HookEnv(run) ==
    EnvOf(<<run.certbot_domain>>, <<Validation>>,
          <<get_provider(run.args.provider).value.name>>,
          <<EnvGet(run.env, "DIGITALOCEAN_API_TOKEN", <<>>)>>)

\* The hooks of that certbot: the creation hook, then the cleanup hook.
CliAuthHook ==
    /\ last.hook = "cli" /\ last.certbot_domain # <<>>
    /\ AuthRun({HookEnv(last)})

CliCleanupHook ==
    /\ last.hook = "auth"
    /\ CleanupRun({last.env})

NextCli == CertbotAuto \/ CliAuthHook \/ CliCleanupHook

SpecCli == InitCli /\ [][NextCli]_vars

\* ------------------------------------------------------------ properties

\* The CERTBOT_DOMAIN of a run.
DomainOf(run) == EnvGet(run.env, "CERTBOT_DOMAIN", <<>>)

\* The entries of a run's trace for one operation.
CallsOf(run, op) == SelectSeq(run.calls, LAMBDA c : c.op = op)

\* The run reached its provider call: create_txt_record for the creation
\* hook, cleanup_txt_records for the cleanup hook.
ReachedProvider(run) == run.hook \in {"auth", "cleanup"} /\ run.calls # <<>>

DotCount(s) == Cardinality({i \in 1..Len(s) : s[i] = Dot})

\* C1: the cleanup hook derives for a domain D the root domain and the
\* record name the creation hook derived for D: when a cleanup hook run
\* follows a creation hook run for the same domain, the names it passes to
\* cleanup_txt_records are the names that run passed to create_txt_record.
C1_CleanupRecomputesCreationNames ==
    [][(/\ last.hook = "auth" /\ ReachedProvider(last)
        /\ last'.hook = "cleanup" /\ ReachedProvider(last')
        /\ DomainOf(last') = DomainOf(last))
       => /\ last'.root_domain = last.calls[1].domain
          /\ last'.record_name = last.calls[1].name
          /\ last'.calls[1].domain = last.calls[1].domain]_vars

\* C1 witness: for a domain of more than two labels none of them empty, the
\* cleanup hook found and deleted the record the creation hook made.
C1_Witness ==
    /\ last.hook = "cleanup" /\ last.exit = 0 /\ last.deleted = 1
    /\ DotCount(DomainOf(last)) = 2
    /\ Len(last.subdomain) = 1 /\ Len(last.root_domain) = 3
    /\ last.found[1].id >= FirstId

\* C2: with the labels of D the pieces between its dots: D of more than two
\* labels gives the root domain made of the last two labels (what follows
\* the last dot but one), the subdomain made of the labels before them (what
\* precedes that dot) and the record name "_acme-challenge." followed by the
\* subdomain; D of one or two labels gives the root domain D, the empty
\* subdomain and the record name "_acme-challenge".
C2_DerivedNames ==
    (last.hook \in {"auth", "cleanup"} /\ last.error # "missing_env") =>
        LET D == DomainOf(last) IN
        IF DotCount(D) + 1 > 2
        THEN \E k \in 1..Len(D) :
                /\ D[k] = Dot
                /\ DotCount(SubSeq(D, k + 1, Len(D))) = 1
                /\ last.root_domain = SubSeq(D, k + 1, Len(D))
                /\ last.subdomain = SubSeq(D, 1, k - 1)
                /\ last.record_name = AcmeChallenge \o <<Dot>> \o SubSeq(D, 1, k - 1)
        ELSE /\ last.root_domain = D
             /\ last.subdomain = <<>>
             /\ last.record_name = AcmeChallenge

\* C2 witness: the creation hook has created the record of a domain of three
\* labels, under the root domain of its last two.
C2_Witness ==
    /\ last.hook = "auth" /\ last.exit = 0
    /\ DomainOf(last) = <<"b", Dot, "a", Dot, "b">>
    /\ last.calls[1].domain = <<"a", Dot, "b">>
    /\ last.calls[1].name = AcmeChallenge \o <<Dot, "b">>

\* The ids of the records a run deleted: its DELETE requests that succeeded.
DeletedIds(run) ==
    {run.calls[i].id : i \in {j \in 1..Len(run.calls) :
                                 run.calls[j].op = "delete_txt_record" /\ run.calls[j].ok}}

\* Some request of the run for one of the operations ops failed.
ApiError(run, ops) == \E i \in 1..Len(run.calls) : run.calls[i].op \in ops /\ ~run.calls[i].ok

\* The TXT records of a record set named name in the zone domain.
TxtNamed(store, domain, name) ==
    {r \in store : r.domain = domain /\ r.type = "TXT" /\ r.name = name}

\* A creation hook run that succeeded, then a cleanup hook run for the same
\* domain in which the listing and every deletion succeeded.
CreationThenCleanup ==
    /\ last.hook = "auth" /\ last.exit = 0
    /\ last'.hook = "cleanup" /\ DomainOf(last') = DomainOf(last)
    /\ last'.exit = 0
    /\ ~ApiError(last', {"delete_txt_record"})

\* C3 as stated: whatever the records before, creation then cleanup for D
\* with every deletion succeeding deletes the one record the creation hook
\* made, no more and no fewer.
C3_DeletesOnlyTheCreatedRecord ==
    [][CreationThenCleanup => DeletedIds(last') = {last.calls[1].id}]_vars

\* C3 amended: creation then cleanup for D with every deletion succeeding
\* deletes exactly the TXT records of the root domain that bear D's record
\* name, the one the creation hook made among them; it is the only one
\* deleted when no other TXT record of that name was there.
C3_DeletesTheRecordsOfThatName ==
    [][CreationThenCleanup =>
        LET made  == last.calls[1]
            named == TxtNamed(records, made.domain, made.name)
        IN /\ DeletedIds(last') = {r.id : r \in named}
           /\ made.id \in DeletedIds(last')
           /\ records' = records \ named
           /\ ({r.id : r \in named} = {made.id} => DeletedIds(last') = {made.id})]_vars

\* C3 witness: a cleanup in which every deletion succeeded has deleted a
\* record that was there before any hook ran and one a creation hook made.
C3_Witness ==
    /\ last.hook = "cleanup" /\ last.exit = 0
    /\ ~ApiError(last, {"delete_txt_record"})
    /\ \E i, j \in DeletedIds(last) : i < FirstId /\ j >= FirstId

\* Python's str.lower makes a the registered (lower-case) name b.
IsCaseVariant(a, b) ==
    /\ Len(a) = Len(b)
    /\ \A i \in 1..Len(a) :
          \/ a[i] = b[i]
          \/ \E j \in 1..Len(UpperChars) : a[i] = UpperChars[j] /\ b[i] = LowerChars[j]

Registered(name) == \E i \in 1..Len(list_providers) : IsCaseVariant(name, list_providers[i])

\* The failures of a hook run, read off its environment and its requests;
\* ops are the operations whose failed request counts as a failure.
MissingEnvVar(run) ==
    \/ DomainOf(run) = <<>>
    \/ run.hook = "auth" /\ EnvGet(run.env, "CERTBOT_VALIDATION", <<>>) = <<>>

UnknownProviderName(run) == ~Registered(EnvGet(run.env, "DNS_PROVIDER", DigitalOceanName))

MissingCredential(run) == EnvGet(run.env, "DIGITALOCEAN_API_TOKEN", <<>>) = <<>>

NullRecord(run) ==
    \E i \in 1..Len(run.calls) : run.calls[i].op = "create_txt_record" /\ run.calls[i].id = 0

Failure(run, ops) ==
    \/ MissingEnvVar(run) \/ UnknownProviderName(run) \/ MissingCredential(run)
    \/ ApiError(run, ops) \/ NullRecord(run)

\* C4 as stated: a hook exits 0 exactly when no failure occurred, a failed
\* list, create or delete request being a failure.
C4_ExitZeroIffNoFailure ==
    last.hook # "none" =>
        (last.exit = 0 <=> ~Failure(last, {"fetch_domain_records", "create_txt_record",
                                           "delete_txt_record"}))

\* C4 amended: a hook exits 0 exactly when no variable is missing, the
\* provider is known, the credential is set, no list or create request failed
\* and create_txt_record gave a record; a failed delete request is not a
\* failure of the hook. It exits 1 otherwise.
C4_ExitZeroIffNoFailureButDelete ==
    last.hook # "none" =>
        /\ last.exit \in {0, 1}
        /\ last.exit = 0 <=> ~Failure(last, {"fetch_domain_records", "create_txt_record"})

\* C4 witness: a cleanup hook one of whose delete requests failed exited 0.
C4_Witness ==
    /\ last.hook = "cleanup" /\ last.exit = 0
    /\ ApiError(last, {"delete_txt_record"})

\* C5: when the create request fails at the backend, create_txt_record
\* returns None (the hook takes the branch of the null record, not that of an
\* exception), the hook exits nonzero and it has not slept.
C5_FailedCreateIsNullAndFatal ==
    (last.hook = "auth" /\ ApiError(last, {"create_txt_record"})) =>
        /\ last.exit # 0
        /\ last.error = "null_record"
        /\ CallsOf(last, "sleep") = <<>>
        /\ Len(last.calls) = 1

\* C5 witness: a creation hook whose create request failed.
C5_Witness ==
    /\ last.hook = "auth" /\ ApiError(last, {"create_txt_record"})
    /\ last.calls[1].ttl = ChallengeTtl

\* A cleanup hook run whose find_txt_records returned.
Listed(run) == run.hook = "cleanup" /\ ReachedProvider(run) /\ run.calls[1].ok

\* C6: find_txt_records returns exactly the fetched records of the zone
\* whose type is TXT and whose name is the whole record name, each once: no
\* record of another type or of another name, and all of those.
C6_FindIsExactMatch ==
    [][Listed(last') =>
        LET want == TxtNamed(records, last'.root_domain, last'.record_name) IN
        /\ {last'.found[i].id : i \in 1..Len(last'.found)} = {r.id : r \in want}
        /\ Len(last'.found) = Cardinality(want)
        /\ \A i \in 1..Len(last'.found) :
              /\ last'.found[i].type = "TXT"
              /\ last'.found[i].name = last'.record_name]_vars

\* C6 witness: find_txt_records returned a record while the zone held a
\* record of that name and another type, and a TXT record whose name only
\* starts with that name.
C6_Witness ==
    /\ Listed(last) /\ Len(last.found) >= 1
    /\ \E r \in records : /\ r.domain = last.root_domain /\ r.type # "TXT"
                          /\ r.name = last.record_name
    /\ \E r \in records : /\ r.domain = last.root_domain /\ r.type = "TXT"
                          /\ Len(r.name) > Len(last.record_name)
                          /\ SubSeq(r.name, 1, Len(last.record_name)) = last.record_name

\* C7: cleanup_txt_records makes one delete request for every record
\* find_txt_records returned, in order, whatever the outcome of the ones
\* before, and returns the number of those that succeeded.
C7_EveryFoundRecordIsTried ==
    Listed(last) =>
        LET dels == CallsOf(last, "delete_txt_record") IN
        /\ Len(dels) = Len(last.found)
        /\ \A i \in 1..Len(dels) : /\ dels[i].id = last.found[i].id
                                   /\ dels[i].domain = last.root_domain
        /\ last.deleted = Cardinality({i \in 1..Len(dels) : dels[i].ok})

\* C7 witness: a deletion failed and a later one was made and succeeded.
C7_Witness ==
    /\ Listed(last)
    /\ LET dels == CallsOf(last, "delete_txt_record") IN
       /\ Len(dels) >= 2 /\ ~dels[1].ok /\ dels[2].ok
       /\ last.deleted = 1

\* C8: when the zone holds no TXT record of the record name,
\* cleanup_txt_records returns 0 and makes no delete request, and the hook
\* exits 0 with the records unchanged; so does a cleanup hook run for the
\* domain of a cleanup hook run before it in which every deletion succeeded.
C8_NothingToDeleteIsSuccess ==
    [][/\ (Listed(last') /\ TxtNamed(records, last'.root_domain, last'.record_name) = {})
          => /\ last'.deleted = 0
             /\ CallsOf(last', "delete_txt_record") = <<>>
             /\ last'.exit = 0
             /\ records' = records
       /\ (/\ last.hook = "cleanup" /\ last.exit = 0
           /\ ~ApiError(last, {"delete_txt_record"})
           /\ Listed(last') /\ DomainOf(last') = DomainOf(last))
          => /\ last'.deleted = 0
             /\ CallsOf(last', "delete_txt_record") = <<>>
             /\ last'.exit = 0
             /\ records' = records]_vars

\* C8 witness: a cleanup hook found nothing and exited 0 after the records
\* the creation hook made had been deleted.
C8_Witness ==
    /\ Listed(last) /\ last.found = <<>> /\ last.exit = 0 /\ last.deleted = 0
    /\ nextId > FirstId
    /\ \A r \in records : r.id < FirstId

\* C9: a creation hook run leaves every record that was there as it was: it
\* lists and deletes nothing and makes at most one create request, which
\* adds one record when it succeeds; and after a cleanup hook run in which
\* every deletion succeeded no TXT record of the record name is left in the
\* zone, however many the creation hook had made.
C9_CreationKeepsRecordsCleanupClears ==
    /\ [][last'.hook = "auth" =>
            /\ records \subseteq records'
            /\ CallsOf(last', "fetch_domain_records") = <<>>
            /\ CallsOf(last', "delete_txt_record") = <<>>
            /\ Len(CallsOf(last', "create_txt_record")) <= 1
            /\ last'.exit = 0 =>
                  records' \ records =
                      {[id |-> nextId, domain |-> last'.root_domain,
                        name |-> last'.record_name, type |-> "TXT",
                        data |-> EnvGet(last'.env, "CERTBOT_VALIDATION", <<>>)]}]_vars
    /\ []((/\ last.hook = "cleanup" /\ last.exit = 0
           /\ ~ApiError(last, {"delete_txt_record"}))
          => TxtNamed(records, last.root_domain, last.record_name) = {})

\* C9 witness: one cleanup hook run deleted two records the creation hook
\* had made for the domain.
C9_Witness ==
    /\ last.hook = "cleanup" /\ last.exit = 0
    /\ ~ApiError(last, {"delete_txt_record"})
    /\ \E i, j \in DeletedIds(last) : i # j /\ i >= FirstId /\ j >= FirstId
    /\ TxtNamed(records, last.root_domain, last.record_name) = {}

\* C10: get_provider gives the registered class for a name that is a
\* registered name up to the case of its letters; for any other name it
\* raises the "Unknown provider" error, whose message holds every name of
\* list_providers; it gives no null class without raising.
C10_RegistryLookup ==
    (last.hook # "none" /\ ~MissingEnvVar(last)) =>
        LET name == EnvGet(last.env, "DNS_PROVIDER", DigitalOceanName) IN
        IF Registered(name)
        THEN /\ last.error # "unknown_provider"
             /\ last.provider # NoneClass
             /\ IsCaseVariant(name, last.provider.name)
             /\ last.message = <<>>
        ELSE /\ last.error = "unknown_provider"
             /\ last.exit # 0
             /\ Contains(last.message, UnknownProviderText \o name)
             /\ \A i \in 1..Len(list_providers) :
                   Contains(last.message, list_providers[i])

\* C10 witness: a hook given the provider name in mixed case got the
\* DigitalOcean class and succeeded.
C10_Witness ==
    /\ last.hook = "auth" /\ last.exit = 0
    /\ EnvGet(last.env, "DNS_PROVIDER", <<>>) = MixedCaseName
    /\ last.provider = DigitalOceanProvider

\* C11: check_subdomain_exists returns true for the empty subdomain and
\* fetches nothing; for a subdomain that is not empty it makes one request
\* for the zone's records and, when that succeeds, returns true exactly when
\* the zone holds a record of type A whose name is the subdomain: a record of
\* that name and another type, an A record of another name and an A record
\* of that name in another zone do not count.
C11_SubdomainHasARecord ==
    last.hook = "check_subdomain_exists" =>
        IF last.subdomain = <<>>
        THEN ~last.raised /\ last.value /\ last.calls = <<>>
        ELSE /\ Len(last.calls) = 1
             /\ last.calls[1].op = "fetch_domain_records"
             /\ last.calls[1].domain = last.domain
             /\ last.raised <=> ~last.calls[1].ok
             /\ ~last.raised =>
                   (last.value <=> \E r \in records : /\ r.domain = last.domain
                                                      /\ r.name = last.subdomain
                                                      /\ r.type = "A")

\* C11 witness: check_subdomain_exists returned false for a zone that holds
\* a record of the subdomain's name and another type, and an A record of
\* another name.
C11_Witness ==
    /\ last.hook = "check_subdomain_exists" /\ ~last.raised /\ ~last.value
    /\ last.calls # <<>>
    /\ \E r \in records : /\ r.domain = last.domain /\ r.name = last.subdomain
                          /\ r.type # "A"
    /\ \E r \in records : /\ r.domain = last.domain /\ r.name # last.subdomain
                          /\ r.type = "A"

\* The configuration errors of a run, read off what it was started with: a
\* provider name that is not registered, the credential variable unset or
\* empty when the process ended, a domain (CERTBOT_DOMAIN for a hook,
\* --domain with an action for certbot_auto.py) that has not the form
\* validate_domain asks for.
ConfigurationError(run) ==
    IF run.hook = "cli"
    THEN \/ ~Registered(run.args.provider)
         \/ MissingCredential(run)
         \/ /\ run.args.action # NoAction /\ run.args.domain # <<>>
            /\ ~MatchesDomain(run.args.domain)
    ELSE \/ UnknownProviderName(run)
         \/ MissingCredential(run)
         \/ ~MatchesDomain(DomainOf(run))

\* C12: a run of the creation hook, of the cleanup hook or of
\* certbot_auto.py that has a configuration error exits nonzero and has made
\* no request to the provider.
C12_ConfigurationErrorBeforeAnyRequest ==
    (last.hook \in {"auth", "cleanup", "cli"} /\ ConfigurationError(last)) =>
        /\ last.exit # 0
        /\ last.calls = <<>>

\* What C13 says of a creation hook run, creates and sleeps being its calls
\* of create_txt_record and its sleeps, t the names derived from its domain.
OneCreateThenTheWait(run, creates, sleeps, t) ==
    /\ Len(creates) <= 1
    /\ creates # <<>> =>
          /\ DomainOf(run) # <<>>
          /\ EnvGet(run.env, "CERTBOT_VALIDATION", <<>>) # <<>>
          /\ EnvGet(run.env, run.provider.env_token_name, <<>>) # <<>>
          /\ run.calls[1] = creates[1]
          /\ creates[1].domain = t.root_domain
          /\ creates[1].name = t.record_name
          /\ creates[1].data = run.env["CERTBOT_VALIDATION"]
          /\ creates[1].ttl = 60
    /\ Len(sleeps) <= 1
    /\ sleeps # <<>> =>
          /\ Len(run.calls) = 2
          /\ run.calls[1].op = "create_txt_record"
          /\ run.calls[1].ok /\ run.calls[1].id # 0
          /\ run.calls[2] = sleeps[1]
          /\ sleeps[1].ttl = 10
    /\ run.exit = 0 <=> sleeps # <<>>

\* C13: a creation hook run calls create_txt_record at most once; when it
\* does, CERTBOT_DOMAIN, CERTBOT_VALIDATION and the provider's credential
\* are set and not empty, the call is the run's first and its arguments are
\* the root domain and the record name derived from CERTBOT_DOMAIN, the
\* value of CERTBOT_VALIDATION and the TTL 60. The run sleeps at most once,
\* for 10 seconds, right after a call that gave a record and as the last
\* thing it does; it has slept when it exits 0 and it has not when it
\* exits nonzero.
C13_OneCreateThenTheWait ==
    last.hook = "auth" =>
        OneCreateThenTheWait(last, CallsOf(last, "create_txt_record"),
                             CallsOf(last, "sleep"), AuthDerive(DomainOf(last)))

\* C13 witness: a creation hook made its one call, got a record, slept and
\* exited 0.
C13_Witness ==
    /\ last.hook = "auth" /\ last.exit = 0
    /\ Len(last.calls) = 2
    /\ last.calls[1].op = "create_txt_record" /\ last.calls[1].id >= FirstId
    /\ last.calls[1].data = Validation /\ last.calls[1].ttl = 60
    /\ last.calls[2].op = "sleep"
    /\ \E r \in records : r.id = last.calls[1].id /\ r.data = Validation

\* C14: every delete request of a cleanup hook run is for the identifier of
\* a record that was, before the run, a TXT record of the run's root domain
\* whose name is the run's record name; the run creates nothing, and every
\* record of another type, of another name or of another zone is after the
\* run as it was before.
C14_CleanupLeavesOtherRecords ==
    [][last'.hook = "cleanup" =>
        /\ \A i \in 1..Len(last'.calls) :
              last'.calls[i].op = "delete_txt_record" =>
                  /\ last'.calls[i].domain = last'.root_domain
                  /\ \E r \in records : /\ r.id = last'.calls[i].id
                                        /\ r.domain = last'.root_domain
                                        /\ r.type = "TXT"
                                        /\ r.name = last'.record_name
        /\ records' \subseteq records
        /\ \A r \in records :
              (r.type # "TXT" \/ r.name # last'.record_name
                 \/ r.domain # last'.root_domain) => r \in records']_vars

\* C14 witness: a cleanup hook run deleted a record and the zone still holds
\* a record of that name and another type, a TXT record of another
\* challenge name and an A record.
C14_Witness ==
    /\ last.hook = "cleanup" /\ DeletedIds(last) # {}
    /\ \E r \in records : /\ r.domain = last.root_domain /\ r.name = last.record_name
                          /\ r.type = "CNAME"
    /\ \E r \in records : /\ r.domain = last.root_domain /\ r.type = "TXT"
                          /\ r.name # last.record_name
                          /\ StartsWith(r.name, AcmeChallenge)
    /\ \E r \in records : r.domain = last.root_domain /\ r.type = "A"

\* The root domain and the record name of derived names.
NamePair(t) == <<t.root_domain, t.record_name>>

\* C15: with the challenge record of a domain D2 in place, the root domain
\* and record name that either hook derives for any other domain D1 are not
\* both those of that record, and that record is still in place after the
\* creation hook and after the cleanup hook for D1.
C15_OtherDomainsRecordIsKept ==
    /\ \E r \in records : r.id = FirstId /\ r.data = OtherValidation
    /\ \A r \in records :
          r.data = OtherValidation =>
              /\ NamePair(AuthDerive(DomainOf(last))) # <<r.domain, r.name>>
              /\ NamePair(CleanupDerive(DomainOf(last))) # <<r.domain, r.name>>
              /\ last.hook \in {"auth", "cleanup"} =>
                    <<last.root_domain, last.record_name>> # <<r.domain, r.name>>

\* C15 witness: the cleanup hook for a subdomain has found and deleted its
\* record in the zone that holds the record of the other domain, the root
\* domain itself.
C15_Witness ==
    /\ last.hook = "cleanup" /\ last.exit = 0 /\ last.deleted = 1
    /\ last.subdomain # <<>>
    /\ \E r \in records : /\ r.data = OtherValidation
                          /\ r.domain = last.root_domain
                          /\ r.name = AcmeChallenge
    /\ \A r \in records : r.data # Validation

====
